---------------------------- MODULE Spec2Model ----------------------------
(***************************************************************************)
(* pricklybird: a binary-to-text codec mapping every byte to a four-letter *)
(* word and framing the words with a CRC-8 (src/.../pricklybird/lib.rs).   *)
(*                                                                         *)
(* A string is a sequence of characters, a character its code point, so    *)
(* that ASCII-ness, case folding and splitting are computed, not assumed.  *)
(* A byte is a number in 0..255.                                           *)
(***************************************************************************)
EXTENDS Integers, Sequences, FiniteSets, TLC

VARIABLES data, words, text, original, outcome, crc, alter, pc

vars == <<data, words, text, original, outcome, crc, alter, pc>>

---------------------------------------------------------------------------
(* Bounds of the model *)

\* longest payload handed to convert_to_pricklybird
MaxLen == 2
\* longest token sequence of the strings handed to convert_from_pricklybird
MaxTokens == 3
\* longest token sequence of the strings whose letters change case
MaxCaseTokens == 2
\* most characters whose case is changed in one string
MaxFlips == 2
\* longest token sequence handed to words_to_bytes directly
MaxWords == 2
\* longest input of calculate_crc8 drawn from every byte value
MaxCrcLen == 1

---------------------------------------------------------------------------
(* Constants of the format *)

\* the generator polynomial of the CRC-8
Poly == 29
\* the separator character '-'
Hyphen == 45
\* the length of a word
WordLen == 4

Bytes == 0 .. 255

\* u8 ^ u8
RECURSIVE BitXor(_, _)
BitXor(a, b) ==
    IF a = 0 THEN b
    ELSE IF b = 0 THEN a
    ELSE ((a + b) % 2) + 2 * BitXor(a \div 2, b \div 2)

\* the remainder of reg * x^n by the generator polynomial, bit by bit
RECURSIVE ShiftReduce(_, _)
ShiftReduce(reg, n) ==
    IF n = 0 THEN reg
    ELSE ShiftReduce(IF reg >= 128 THEN BitXor((2 * reg) % 256, Poly)
                                   ELSE 2 * reg, n - 1)

\* constants::CRC8_TABLE, the precomputed remainder of every byte
CRC8_TABLE == [i \in Bytes |-> ShiftReduce(i, 8)]

\* The sixteen first and last letters of the words the sources do not show.
FillFirst == <<97, 99, 100, 101, 102, 103, 104, 105,
               106, 107, 108, 109, 110, 111, 112, 113>>
FillLast == <<98, 99, 101, 104, 105, 106, 107, 109,
              111, 112, 113, 117, 118, 119, 121, 122>>

\* The word of a byte.  The words that lib.rs shows (its doc tests and test
\* vectors) stand at their bytes; the canonical list is otherwise not among the
\* sources, and the other bytes get words that keep the invariant of the list:
\* four lowercase letters, no two words with the same first and last letter.
WordOf(b) ==
    CASE b = 0   -> <<97, 99, 105, 100>>      \* acid
      [] b = 18  -> <<98, 108, 111, 98>>      \* blob
      [] b = 52  -> <<101, 103, 103, 115>>    \* eggs
      [] b = 66  -> <<102, 108, 101, 97>>     \* flea
      [] b = 67  -> <<102, 108, 117, 120>>    \* flux
      [] b = 70  -> <<102, 117, 108, 108>>    \* full
      [] b = 86  -> <<104, 97, 105, 114>>     \* hair
      [] b = 120 -> <<107, 105, 110, 103>>    \* king
      [] b = 144 -> <<109, 101, 116, 97>>     \* meta
      [] b = 173 -> <<112, 111, 114, 116>>    \* port
      [] b = 190 -> <<114, 117, 115, 116>>    \* rust
      [] b = 194 -> <<115, 97, 110, 100>>     \* sand
      [] b = 222 -> <<116, 117, 114, 102>>    \* turf
      [] b = 234 -> <<118, 111, 105, 100>>    \* void
      [] b = 239 -> <<119, 97, 114, 110>>     \* warn
      [] b = 252 -> <<121, 101, 108, 108>>    \* yell
      [] b = 255 -> <<122, 111, 110, 101>>    \* zone
      [] OTHER   -> << FillFirst[(b \div 16) + 1], 97 + ((7 * b) % 26),
                       97 + ((3 * b + 1) % 26), FillLast[(b % 16) + 1] >>

\* constants::BYTE_WORDLIST
BYTE_WORDLIST == [b \in Bytes |-> WordOf(b)]

\* constants::word_hash, total over every pair of ASCII characters
word_hash(first, last) == (first % 32) * 32 + (last % 32)

\* constants::HASH_TABLE: the byte of the word with that hash, 0 where no word has it
HASH_TABLE ==
    [h \in 0 .. 1023 |->
        LET hit == {b \in Bytes :
                      word_hash(BYTE_WORDLIST[b][1], BYTE_WORDLIST[b][WordLen]) = h}
        IN  IF hit = {} THEN 0 ELSE CHOOSE b \in hit : TRUE]

---------------------------------------------------------------------------
(* Strings *)

\* str::is_ascii
is_ascii(s) == \A i \in 1 .. Len(s) : s[i] < 128

\* char::to_lowercase on the characters of the model: the ASCII capitals, and of
\* the others A-umlaut (U+00C4) and the Kelvin sign (U+212A, whose lowercase is k)
lower_char(c) ==
    IF c \in 65 .. 90 THEN c + 32
    ELSE IF c = 196 THEN 228
    ELSE IF c = 8490 THEN 107
    ELSE c

\* str::to_lowercase
to_lowercase(s) == [i \in 1 .. Len(s) |-> lower_char(s[i])]

\* str::split('-'): the tokens between the separators, empty ones kept
RECURSIVE split_from(_, _, _, _)
split_from(s, i, token, done) ==
    IF i > Len(s) THEN Append(done, token)
    ELSE IF s[i] = Hyphen THEN split_from(s, i + 1, <<>>, Append(done, token))
    ELSE split_from(s, i + 1, Append(token, s[i]), done)

split(s) == split_from(s, 1, <<>>, <<>>)

\* [[u8; 4]]::join(&b'-') and [&str]::join("-")
RECURSIVE join(_)
join(ws) ==
    IF ws = <<>> THEN <<>>
    ELSE IF Len(ws) = 1 THEN ws[1]
    ELSE ws[1] \o <<Hyphen>> \o join(Tail(ws))

---------------------------------------------------------------------------
(* Results *)

Ok(bytes) == [kind |-> "Ok", bytes |-> bytes, msg |-> ""]
General(msg) == [kind |-> "General", bytes |-> <<>>, msg |-> msg]
CRCError == [kind |-> "CRCError", bytes |-> <<>>, msg |-> ""]
NoOutcome == [kind |-> "none", bytes |-> <<>>, msg |-> ""]

---------------------------------------------------------------------------
(* The codec *)

RECURSIVE crc_loop(_, _, _)
crc_loop(bytes, i, reg) ==
    IF i > Len(bytes) THEN reg
    ELSE crc_loop(bytes, i + 1, CRC8_TABLE[BitXor(reg, bytes[i])])

\* mutant: the register is not looked up in the table, the bytes are only XORed
RECURSIVE xor_loop(_, _, _)
xor_loop(bytes, i, reg) ==
    IF i > Len(bytes) THEN reg
    ELSE xor_loop(bytes, i + 1, BitXor(reg, bytes[i]))

calculate_crc8_xor_only(bytes) == xor_loop(bytes, 1, 0)

\* mutant: the loop starts one byte late
calculate_crc8_skips_first(bytes) == crc_loop(bytes, 2, 0)

\* mutant: the table is indexed by the byte alone, the register is not fed back
RECURSIVE no_feedback_loop(_, _, _)
no_feedback_loop(bytes, i, reg) ==
    IF i > Len(bytes) THEN reg
    ELSE no_feedback_loop(bytes, i + 1, CRC8_TABLE[bytes[i]])

calculate_crc8_no_feedback(bytes) == no_feedback_loop(bytes, 1, 0)

\* mutant: the register starts at 0xFF
calculate_crc8_init_ff(bytes) == crc_loop(bytes, 1, 255)

calculate_crc8(bytes) == crc_loop(bytes, 1, 0)

bytes_to_words(bytes) == [i \in 1 .. Len(bytes) |-> BYTE_WORDLIST[bytes[i]]]

RECURSIVE words_loop(_, _, _)
words_loop(ws, i, bytevector) ==
    IF i > Len(ws) THEN Ok(bytevector)
    ELSE IF ~is_ascii(ws[i])
    THEN General("Input must only contain ASCII compatible UTF-8.")
    ELSE LET word_bytes == to_lowercase(ws[i]) IN
         IF Len(word_bytes) # WordLen
         THEN General("Input words must be four characters long.")
         ELSE LET recovered_byte ==
                      HASH_TABLE[word_hash(word_bytes[1], word_bytes[WordLen])] IN
              IF word_bytes # BYTE_WORDLIST[recovered_byte]
              THEN General("Invalid word detected in input.")
              ELSE words_loop(ws, i + 1, Append(bytevector, recovered_byte))

\* mutant: the word is not folded to lowercase before the lookup
RECURSIVE words_loop_case_sensitive(_, _, _)
words_loop_case_sensitive(ws, i, bytevector) ==
    IF i > Len(ws) THEN Ok(bytevector)
    ELSE IF ~is_ascii(ws[i])
    THEN General("Input must only contain ASCII compatible UTF-8.")
    ELSE LET word_bytes == ws[i] IN
         IF Len(word_bytes) # WordLen
         THEN General("Input words must be four characters long.")
         ELSE LET recovered_byte ==
                      HASH_TABLE[word_hash(word_bytes[1], word_bytes[WordLen])] IN
              IF word_bytes # BYTE_WORDLIST[recovered_byte]
              THEN General("Invalid word detected in input.")
              ELSE words_loop_case_sensitive(ws, i + 1,
                                             Append(bytevector, recovered_byte))

words_to_bytes_case_sensitive(ws) == words_loop_case_sensitive(ws, 1, <<>>)

\* mutant: the byte of the hash table is taken without comparing the whole word
RECURSIVE words_loop_unverified(_, _, _)
words_loop_unverified(ws, i, bytevector) ==
    IF i > Len(ws) THEN Ok(bytevector)
    ELSE IF ~is_ascii(ws[i])
    THEN General("Input must only contain ASCII compatible UTF-8.")
    ELSE LET word_bytes == to_lowercase(ws[i]) IN
         IF Len(word_bytes) # WordLen
         THEN General("Input words must be four characters long.")
         ELSE words_loop_unverified(ws, i + 1,
                  Append(bytevector,
                         HASH_TABLE[word_hash(word_bytes[1], word_bytes[WordLen])]))

words_to_bytes_unverified(ws) == words_loop_unverified(ws, 1, <<>>)

words_to_bytes(ws) == words_loop(ws, 1, <<>>)

\* mutant: no CRC word is appended
convert_to_pricklybird_no_crc(bytes) ==
    IF bytes = <<>> THEN <<>> ELSE join(bytes_to_words(bytes))

convert_to_pricklybird(bytes) ==
    IF bytes = <<>> THEN <<>>
    ELSE join(bytes_to_words(Append(bytes, calculate_crc8(bytes))))

\* mutant: the CRC byte is not removed from the result
convert_from_pricklybird_keeps_crc(s) ==
    LET word_vec == split(s) IN
    IF Len(word_vec) < 2
    THEN General("Input must be at least two words long.")
    ELSE LET decoded == words_to_bytes(word_vec) IN
         IF decoded.kind # "Ok" THEN decoded
         ELSE IF calculate_crc8(decoded.bytes) # 0 THEN CRCError
         ELSE Ok(decoded.bytes)

\* mutant: the CRC is not checked
convert_from_pricklybird_unchecked(s) ==
    LET word_vec == split(s) IN
    IF Len(word_vec) < 2
    THEN General("Input must be at least two words long.")
    ELSE LET decoded == words_to_bytes(word_vec) IN
         IF decoded.kind # "Ok" THEN decoded
         ELSE Ok(SubSeq(decoded.bytes, 1, Len(decoded.bytes) - 1))

convert_from_pricklybird(s) ==
    LET word_vec == split(s) IN
    IF Len(word_vec) < 2
    THEN General("Input must be at least two words long.")
    ELSE LET decoded == words_to_bytes(word_vec) IN
         IF decoded.kind # "Ok" THEN decoded
         ELSE IF calculate_crc8(decoded.bytes) # 0 THEN CRCError
         ELSE Ok(SubSeq(decoded.bytes, 1, Len(decoded.bytes) - 1))

---------------------------------------------------------------------------
(* Inputs *)

RECURSIVE SeqsUpTo(_, _)
SeqsUpTo(S, n) ==
    IF n = 0 THEN {<<>>}
    ELSE LET shorter == SeqsUpTo(S, n - 1)
         IN  shorter \cup {Append(s, x) : s \in {t \in shorter : Len(t) = n - 1}, x \in S}

\* payload bytes: the ends of the range, the bytes of the doc tests, single bits
SampleBytes == {0, 1, 66, 67, 128, 255}

NoAlter == [kind |-> "none", at |-> 0, byte |-> 0]

---------------------------------------------------------------------------
(* Encoding, corrupting and decoding a payload *)

\* every payload of one byte, and the payloads of up to MaxLen sampled bytes
Init ==
    /\ data \in SeqsUpTo(SampleBytes, MaxLen) \cup {<<b>> : b \in Bytes}
    /\ words = <<>>
    /\ text = <<>>
    /\ original = <<>>
    /\ outcome = NoOutcome
    /\ crc = 0
    /\ alter = NoAlter
    /\ pc = "start"

Encode ==
    /\ pc = "start"
    /\ text' = convert_to_pricklybird(data)
    /\ original' = text'
    /\ pc' = "encoded"
    /\ UNCHANGED <<data, words, outcome, crc, alter>>

swap(ws, i) == [ws EXCEPT ![i] = ws[i + 1], ![i + 1] = ws[i]]

SwapAdjacent ==
    /\ pc = "encoded"
    /\ \E i \in 1 .. Len(split(text)) - 1 :
          /\ text' = join(swap(split(text), i))
          /\ alter' = [kind |-> "swap", at |-> i, byte |-> 0]
    /\ pc' = "altered"
    /\ UNCHANGED <<data, words, original, outcome, crc>>

SubstituteWord ==
    /\ pc = "encoded"
    /\ \E i \in 1 .. Len(data) : \E b \in Bytes \ {data[i]} :
          /\ text' = join([split(text) EXCEPT ![i] = bytes_to_words(<<b>>)[1]])
          /\ alter' = [kind |-> "subst", at |-> i, byte |-> b]
    /\ pc' = "altered"
    /\ UNCHANGED <<data, words, original, outcome, crc>>

Decode ==
    /\ pc \in {"input", "encoded", "altered"}
    /\ outcome' = convert_from_pricklybird(text)
    /\ pc' = "decoded"
    /\ UNCHANGED <<data, words, text, original, crc, alter>>

Next == Encode \/ SwapAdjacent \/ SubstituteWord \/ Decode

Spec == Init /\ [][Next]_vars

---------------------------------------------------------------------------
(* Decoding arbitrary strings *)

\* Tokens: words of the list, a word in mixed case, and what test_unusual_input
\* feeds the decoder: an empty token, a short one, one with a non-ASCII letter,
\* non-words sharing the first and last letter (or only the hash) of a word, a
\* non-word whose letters hash to no word, and a token whose only non-ASCII
\* character is the Kelvin sign.
TokenSamples ==
    { BYTE_WORDLIST[0], BYTE_WORDLIST[66], BYTE_WORDLIST[67], BYTE_WORDLIST[70],
      BYTE_WORDLIST[calculate_crc8(<<66>>)],
      <<102, 76, 101, 65>>,        \* fLeA
      <<>>,
      <<102, 108, 101>>,           \* fle
      <<103, 228, 115, 112>>,      \* g(a-umlaut)sp
      <<102, 108, 120, 97>>,       \* flxa
      <<38, 108, 101, 97>>,        \* &lea
      <<122, 122, 122, 122>>,      \* zzzz
      <<8490, 105, 110, 103>> }    \* (Kelvin sign)ing

InitDecode ==
    /\ text \in {join(ws) : ws \in SeqsUpTo(TokenSamples, MaxTokens)}
    /\ original = text
    /\ data = <<>>
    /\ words = <<>>
    /\ outcome = NoOutcome
    /\ crc = 0
    /\ alter = NoAlter
    /\ pc = "input"

NextDecode == Decode

SpecDecode == InitDecode /\ [][NextDecode]_vars

\* is the string one of the 256 words
InWordlist(w) == \E b \in Bytes : BYTE_WORDLIST[b] = w

---------------------------------------------------------------------------
(* Changing the case of a string's letters before decoding it *)

CaseTokens ==
    { BYTE_WORDLIST[0], BYTE_WORDLIST[66], BYTE_WORDLIST[calculate_crc8(<<66>>)],
      <<102, 76, 101, 65>>,        \* fLeA
      <<102, 108, 101>>,           \* fle
      <<103, 228, 115, 112>>,      \* g(a-umlaut)sp
      <<122, 122, 122, 122>> }     \* zzzz

\* char::is_ascii_alphabetic
is_ascii_letter(c) == c \in 65 .. 90 \/ c \in 97 .. 122

\* the other case of an ASCII letter
other_case(c) == IF c \in 65 .. 90 THEN c + 32 ELSE c - 32

InitCase ==
    /\ text \in {join(ws) : ws \in SeqsUpTo(CaseTokens, MaxCaseTokens)}
    /\ original = text
    /\ data = <<>>
    /\ words = <<>>
    /\ outcome = NoOutcome
    /\ crc = 0
    /\ alter = NoAlter
    /\ pc = "input"

ChangeCase ==
    /\ pc \in {"input", "altered"}
    /\ \E i \in 1 .. Len(text) :
          /\ is_ascii_letter(text[i])
          /\ text' = [text EXCEPT ![i] = other_case(text[i])]
          /\ Cardinality({j \in 1 .. Len(text) : text'[j] # original[j]}) <= MaxFlips
    /\ alter' = [kind |-> "case", at |-> 0, byte |-> 0]
    /\ pc' = "altered"
    /\ UNCHANGED <<data, words, original, outcome, crc>>

NextCase == ChangeCase \/ Decode

SpecCase == InitCase /\ [][NextCase]_vars

---------------------------------------------------------------------------
(* The unframed lookups *)

InitWords ==
    /\ \/ /\ pc = "bytes"
          /\ data \in SeqsUpTo(SampleBytes, MaxWords) \cup {<<b>> : b \in Bytes}
          /\ words = <<>>
       \/ /\ pc = "tokens"
          /\ data = <<>>
          /\ words \in SeqsUpTo(TokenSamples, MaxWords)
    /\ text = <<>>
    /\ original = <<>>
    /\ outcome = NoOutcome
    /\ crc = 0
    /\ alter = NoAlter

BytesToWords ==
    /\ pc = "bytes"
    /\ words' = bytes_to_words(data)
    /\ pc' = "forward"
    /\ UNCHANGED <<data, text, original, outcome, crc, alter>>

WordsToBytes ==
    /\ pc \in {"forward", "tokens"}
    /\ outcome' = words_to_bytes(words)
    /\ pc' = IF pc = "forward" THEN "roundtrip" ELSE "reverse"
    /\ UNCHANGED <<data, words, text, original, crc, alter>>

NextWords == BytesToWords \/ WordsToBytes

SpecWords == InitWords /\ [][NextWords]_vars

---------------------------------------------------------------------------
(* The CRC-8 *)

\* b"123456789"
CheckString == <<49, 50, 51, 52, 53, 54, 55, 56, 57>>

InitCrc ==
    /\ data \in SeqsUpTo(Bytes, MaxCrcLen) \cup SeqsUpTo(SampleBytes, MaxCrcLen + 2)
                   \cup {CheckString}
    /\ words = <<>>
    /\ text = <<>>
    /\ original = <<>>
    /\ outcome = NoOutcome
    /\ crc = 0
    /\ alter = NoAlter
    /\ pc = "input"

Crc8 ==
    /\ pc \in {"input", "appended"}
    /\ crc' = calculate_crc8(data)
    /\ pc' = IF pc = "input" THEN "crc" ELSE "check"
    /\ UNCHANGED <<data, words, text, original, outcome, alter>>

AppendCrc ==
    /\ pc = "crc"
    /\ data' = Append(data, crc)
    /\ pc' = "appended"
    /\ UNCHANGED <<words, text, original, outcome, crc, alter>>

NextCrc == Crc8 \/ AppendCrc

SpecCrc == InitCrc /\ [][NextCrc]_vars

---------------------------------------------------------------------------
(* Claims about encoding, corrupting and decoding a payload (Spec) *)

\* C1 as stated: decoding the encoding of any payload, the empty one included,
\* returns that payload.
C1_RoundTripEveryPayload ==
    (pc = "decoded" /\ alter = NoAlter) => outcome = Ok(data)

\* C1, amended: decoding the encoding of a non-empty payload returns that payload;
\* the empty payload encodes to the empty string, which is rejected with
\* DecodeError::General.
C1_RoundTripNonEmpty ==
    (pc = "decoded" /\ alter = NoAlter) =>
        IF data # <<>> THEN outcome = Ok(data)
        ELSE text = <<>> /\ outcome.kind = "General"

C1_Witness ==
    pc = "decoded" /\ alter = NoAlter /\ Len(data) = MaxLen /\ outcome = Ok(data)

\* C2 as stated: after swapping any two adjacent words of an encoding, decoding
\* fails with DecodeError::CRCError.
C2_EverySwapDetected ==
    (pc = "decoded" /\ alter.kind = "swap") => outcome = CRCError

\* C2, amended: after swapping two adjacent words that differ, decoding fails with
\* DecodeError::CRCError; swapping two equal words leaves the encoding as it was,
\* and it decodes to the payload.
C2_SwapOfDifferentWordsDetected ==
    (pc = "decoded" /\ alter.kind = "swap") =>
        IF split(original)[alter.at] # split(original)[alter.at + 1]
        THEN outcome = CRCError
        ELSE text = original /\ outcome = Ok(data)

\* a swap of the last payload word with a different CRC word, rejected
C2_Witness ==
    /\ pc = "decoded"
    /\ alter.kind = "swap"
    /\ alter.at = Len(data)
    /\ Len(data) = MaxLen
    /\ text # original
    /\ outcome = CRCError

\* C3: after replacing one payload word of an encoding by the word of another byte,
\* decoding fails, and with DecodeError::CRCError.
C3_SubstitutionDetected ==
    (pc = "decoded" /\ alter.kind = "subst") => outcome = CRCError

\* a single flipped bit in the first of several payload bytes, rejected
C3_Witness ==
    /\ pc = "decoded"
    /\ alter.kind = "subst"
    /\ Len(data) = MaxLen
    /\ alter.at = 1
    /\ alter.byte = BitXor(data[1], 128)
    /\ outcome = CRCError

\* C8: the encoding of the empty payload is the empty string; the encoding of N >= 1
\* bytes is N+1 lowercase four-letter words, the words of the bytes and then the
\* word of their CRC, with one '-' between neighbours and none at the ends.
C8_FramedFormat ==
    pc = "encoded" =>
        LET N == Len(data)
            framed == Append(data, calculate_crc8(data))
        IN  IF N = 0 THEN text = <<>>
            ELSE /\ Len(text) = 5 * N + 4
                 /\ \A i \in 0 .. N :
                       SubSeq(text, 5 * i + 1, 5 * i + 4) = BYTE_WORDLIST[framed[i + 1]]
                 /\ \A i \in 1 .. N : text[5 * i] = Hyphen
                 /\ \A i \in 1 .. Len(text) : text[i] = Hyphen \/ text[i] \in 97 .. 122
                 /\ Len(split(text)) = N + 1

C8_Witness ==
    pc = "encoded" /\ Len(data) = MaxLen /\ Len(text) = 5 * MaxLen + 4

---------------------------------------------------------------------------
(* Claims about decoding arbitrary strings (SpecDecode) *)

\* a token the decoder has to refuse: not ASCII, not four characters once
\* lowercased, or not a word of the list once lowercased
BadToken(t) ==
    \/ ~is_ascii(t)
    \/ Len(to_lowercase(t)) # WordLen
    \/ ~InWordlist(to_lowercase(t))

\* C4: a string with fewer than two tokens, or with any token that is not ASCII,
\* not four characters long or not in the wordlist, is rejected with
\* DecodeError::General, whatever its other tokens and their CRC are.
C4_StructuralRejection ==
    (/\ pc = "decoded"
     /\ \/ Len(split(text)) < 2
        \/ \E i \in 1 .. Len(split(text)) : BadToken(split(text)[i]))
    => outcome.kind = "General"

\* a non-word that shares the first and last letter of a word, after valid words
C4_Witness ==
    /\ pc = "decoded"
    /\ Len(split(text)) = MaxTokens
    /\ \A i \in 1 .. MaxTokens - 1 : ~BadToken(split(text)[i])
    /\ split(text)[MaxTokens] = <<102, 108, 120, 97>>
    /\ outcome = General("Invalid word detected in input.")

\* C10: an accepted string decodes to a non-empty payload with one byte fewer than
\* the string has tokens, and the payload's encoding is the string in lowercase: its
\* last word is the word of the payload's CRC.
C10_CanonicalReencoding ==
    (pc = "decoded" /\ outcome.kind = "Ok") =>
        /\ outcome.bytes # <<>>
        /\ Len(outcome.bytes) = Len(split(text)) - 1
        /\ convert_to_pricklybird(outcome.bytes) = to_lowercase(text)
        /\ to_lowercase(split(text)[Len(split(text))])
              = BYTE_WORDLIST[calculate_crc8(outcome.bytes)]

\* an accepted string with a capital letter and more than one payload byte
C10_Witness ==
    /\ pc = "decoded"
    /\ outcome.kind = "Ok"
    /\ Len(outcome.bytes) >= 2
    /\ text # to_lowercase(text)

---------------------------------------------------------------------------
(* Claims about letter case (SpecCase) *)

SameOutcome(r, q) == r.kind = q.kind /\ r.bytes = q.bytes

\* C7: a string whose ASCII letters changed case decodes to the outcome of the
\* string it came from, and so do its tokens under words_to_bytes.
C7_CaseInsensitive ==
    /\ pc = "decoded" => SameOutcome(outcome, convert_from_pricklybird(original))
    /\ SameOutcome(words_to_bytes(split(text)), words_to_bytes(split(original)))

\* an accepted string, MaxFlips of whose letters changed case
C7_Witness ==
    /\ pc = "decoded"
    /\ Cardinality({j \in 1 .. Len(text) : text[j] # original[j]}) = MaxFlips
    /\ outcome.kind = "Ok"
    /\ outcome.bytes # <<>>

---------------------------------------------------------------------------
(* Claims about the unframed lookups (SpecWords) *)

\* what C9 says of bytes_to_words and of the round trip through both lookups
C9_Forward ==
    /\ pc \in {"forward", "roundtrip"} =>
          /\ Len(words) = Len(data)
          /\ \A i \in 1 .. Len(data) : words[i] = BYTE_WORDLIST[data[i]]
    /\ pc = "roundtrip" => outcome = Ok(data)

\* what C9 says of an accepted token sequence: byte i is the one byte of token i
C9_Accepted ==
    /\ outcome.kind = "Ok"
    /\ Len(outcome.bytes) = Len(words)
    /\ \A i \in 1 .. Len(words) : \A b \in Bytes :
          BYTE_WORDLIST[b] = to_lowercase(words[i]) <=> b = outcome.bytes[i]

\* what C9 says of a refused token sequence
C9_Refused == outcome.kind = "General" /\ outcome.bytes = <<>>

\* C9 as stated: bytes_to_words maps byte i to its word; words_to_bytes accepts
\* exactly the token sequences whose every token, lowercased, is a word of the list,
\* returning the bytes of those words, and refuses the others with
\* DecodeError::General and no bytes.
C9_AcceptsExactlyLowercasedWords ==
    /\ C9_Forward
    /\ pc = "reverse" =>
          IF \A i \in 1 .. Len(words) : InWordlist(to_lowercase(words[i]))
          THEN C9_Accepted ELSE C9_Refused

\* C9, amended: words_to_bytes accepts exactly the token sequences whose every token
\* is ASCII and, lowercased, is a word of the list; the rest as stated.
C9_AcceptsExactlyAsciiWords ==
    /\ C9_Forward
    /\ pc = "reverse" =>
          IF \A i \in 1 .. Len(words) :
                 is_ascii(words[i]) /\ InWordlist(to_lowercase(words[i]))
          THEN C9_Accepted ELSE C9_Refused

\* a word of the list followed by a non-word with a word's first and last letter
C9_Witness ==
    /\ pc = "reverse"
    /\ Len(words) = 2
    /\ InWordlist(words[1])
    /\ ~InWordlist(words[2])
    /\ Len(words[2]) = WordLen
    /\ \E b \in Bytes : /\ BYTE_WORDLIST[b][1] = words[2][1]
                        /\ BYTE_WORDLIST[b][WordLen] = words[2][WordLen]
    /\ outcome = General("Invalid word detected in input.")

---------------------------------------------------------------------------
(* Claims about the CRC-8 (SpecCrc) *)

\* the bits of a byte, the most significant first
ByteBits(b) == [k \in 1 .. 8 |-> (b \div (2 ^ (8 - k))) % 2]

\* long division by x^8 + x^4 + x^3 + x^2 + 1 over GF(2), one byte of the
\* dividend: each bit is shifted into the register, and the polynomial subtracted
\* whenever a 1 is shifted out
RECURSIVE ShiftIn(_, _, _)
ShiftIn(reg, bits, k) ==
    IF k > Len(bits) THEN reg
    ELSE IF reg >= 128
    THEN ShiftIn(BitXor(((2 * reg) % 256) + bits[k], Poly), bits, k + 1)
    ELSE ShiftIn(2 * reg + bits[k], bits, k + 1)

RECURSIVE DivideBytes(_, _, _)
DivideBytes(bytes, i, reg) ==
    IF i > Len(bytes) THEN reg
    ELSE DivideBytes(bytes, i + 1, ShiftIn(reg, ByteBits(bytes[i]), 1))

\* the reference CRC-8: the remainder of the message times x^8, register 0 at the
\* start, nothing reflected, nothing XORed onto the result
ReferenceCrc8(bytes) == DivideBytes(Append(bytes, 0), 1, 0)

\* C5: the CRC of a byte sequence with its own CRC appended is 0.
C5_CrcFixedPoint == pc = "check" => crc = 0

\* the check string with its non-zero CRC appended
C5_Witness ==
    /\ pc = "check"
    /\ SubSeq(data, 1, Len(data) - 1) = CheckString
    /\ data[Len(data)] = 55
    /\ crc = 0

\* C6: calculate_crc8 is the reference CRC-8 of polynomial 0x1D: 0 for the empty
\* input, the table entry for a single byte, 0x37 for "123456789".
C6_ReferenceCrc ==
    pc \in {"crc", "check"} =>
        /\ crc = ReferenceCrc8(data)
        /\ data = <<>> => crc = 0
        /\ Len(data) = 1 => crc = CRC8_TABLE[data[1]]
        /\ data = CheckString => crc = 55

C6_Witness == pc = "crc" /\ data = CheckString /\ crc = 55

===========================================================================
